---- MODULE Spec2Model ----
(***************************************************************************)
(* A model of spaxum (src/spaxum/src/lib.rs): the Spaxum instance and its  *)
(* router, the log relay task of start_proxy, EntryFiles::from_manifest,   *)
(* the build-script function bundle_with_args and proxy_handler.            *)
(*                                                                         *)
(* Strings the code scans (templates, titles, paths) are sequences of      *)
(* one-character strings, so that replace, ends_with and file_name are     *)
(* computed as the code computes them.                                     *)
(***************************************************************************)
EXTENDS Integers, Sequences, FiniteSets, TLC

VARIABLES
    \* ---- the Spaxum instance (struct Spaxum) and what router() produced
    envEntrypoint,   \* option_env!("SPAXUM_ENTRYPOINT") at compile time: None or a path
    envEntry,        \* option_env!("SPAXUM_JS_ENTRY") / ("SPAXUM_CSS_ENTRY"): [js, css], None or a name
    stage,           \* "unloaded" | "live" | "routed" | "panicked"
    title,
    engine,          \* "None" | "Proxy" | "MemoryServe"
    entry_files,     \* [js, css] of SpaxumEngine::MemoryServe
    esbuild_args,
    html_template,   \* None or a string
    process_index,   \* None or a hook
    distDir,         \* "present" | "removed": OUT_DIR/dist on disk
    spawnCalls,      \* number of bundler dev-server spawn attempts
    children,        \* number of dev-server processes spawned
    relayTask,       \* "none" | "spawned": the tokio task of start_proxy
    htmlPre,         \* the local html of router() just before the hook
    hookInputs,      \* the arguments the hook was called with, in order
    htmlServed,      \* the Html(html) of the fallback route
    staticRoute,     \* "none" | "memory_serve" | "proxy_handler": what /static is nested to
    lastMemoryServe, \* result of the last memory_serve() call: "unasked" | "Some" | "None"
    \* ---- the dev-server process and the relay task spawned in start_proxy
    bundler,         \* "running" | "exited_ok" | "exited_err" | "killed"
    outPipe,         \* lines written to the child's stdout and not yet read
    errPipe,         \* lines written to the child's stderr and not yet read
    outOpen,         \* the child still holds the write end of stdout
    errOpen,         \* the child still holds the write end of stderr
    outWritten,      \* every line the child wrote to stdout, in order
    errWritten,      \* every line the child wrote to stderr, in order
    hostStdout,      \* what the host printed with println!
    hostStderr,      \* what the host printed with eprintln!
    task,            \* "running" | "done": the relay task's loop
    \* ---- EntryFiles::from_manifest
    manifestFile,    \* "ok" | "unreadable" | "unparsable": the file at manifest_file
    manifest,        \* Manifest.outputs: output name -> Output
    entrypoint,      \* the canonical entrypoint path
    fmState,         \* "pending" | "returned" | "panicked"
    fmResult,        \* Option<EntryFiles>
    \* ---- the build script: bundle_with_args and the bundler it runs
    debugBuild,      \* cfg!(debug_assertions)
    quiet,           \* SPAXUM_QUIET is "1"
    bpc,             \* "start" | "read_stdout" | "read_stderr" | "wait" | "returned" | "exited" | "panicked"
    exitCode,        \* the status given to exit (101 for a panic), -1 before
    failure,         \* which failure ended the script, "none" when none did
    cargo,           \* the directives printed to cargo, in order
    canon,           \* Option: the canonicalized entrypoint
    assetFile,       \* Option: the content of OUT_DIR/spaxum.rs
    outDist,         \* "present" | "removed": OUT_DIR/dist
    spawns,          \* number of bundler spawn attempts
    manifestReads,   \* number of times the manifest file was read
    found,           \* Option<EntryFiles>: what from_manifest returned
    esb,             \* the bundler process: "none" | "running" | "exited"
    esbStatus,       \* its exit status: "none" | "ok" | "err"
    esbOp,           \* "idle", or the write it is in: "write_out" | "write_err"
    esbLine,         \* the line being written
    bOut,            \* the stdout pipe: lines written and not yet read
    bErr,            \* the stderr pipe
    bOutN,           \* number of lines written to stdout so far
    bErrN,           \* number of lines written to stderr so far
    pipesOpen,       \* the bundler holds the write ends of both pipes
    \* ---- the proxy router (router(), proxy arm) and proxy_handler
    pstate,          \* "idle" | "received" | "done"
    clientReq,       \* Option: the request the router received
    route,           \* "none" | "fallback_html" | "method_not_allowed" | "proxy_handler"
    handlerReq,      \* Option: the request proxy_handler was called with
    forwarded,       \* the requests sent to the dev server for clientReq, in order
    upstreamResult,  \* Option: what client.request returned: a response or Failed
    response         \* Option: the response given to the client

routerVars == << envEntrypoint, envEntry, stage, title, engine, entry_files,
                 esbuild_args, html_template, process_index, distDir, spawnCalls,
                 children, relayTask, htmlPre, hookInputs, htmlServed, staticRoute,
                 lastMemoryServe >>

relayVars == << bundler, outPipe, errPipe, outOpen, errOpen, outWritten, errWritten,
                hostStdout, hostStderr, task >>

manifestVars == << manifestFile, manifest, entrypoint, fmState, fmResult >>

bundleVars == << debugBuild, quiet, bpc, exitCode, failure, cargo, canon, assetFile,
                 outDist, spawns, manifestReads, found, esb, esbStatus, esbOp, esbLine,
                 bOut, bErr, bOutN, bErrN, pipesOpen >>

proxyVars == << pstate, clientReq, route, handlerReq, forwarded, upstreamResult, response >>

vars == << routerVars, relayVars, manifestVars, bundleVars, proxyVars >>

\* Option<T>: None, or Some(x)
None == << >>

Some(x) == << x >>

Unwrap(o) == o[1]

----------------------------------------------------------------------------
\* Strings as sequences of characters

PH_TITLE == << "%", "T", "I", "T", "L", "E", "%" >>
PH_SCRIPT == << "%", "S", "C", "R", "I", "P", "T", "%" >>
PH_STYLESHEET == << "%", "S", "T", "Y", "L", "E", "S", "H", "E", "E", "T", "%" >>
BODY_END == << "<", "/", "b", "o", "d", "y", ">" >>
INDEX_JS == << "i", "n", "d", "e", "x", ".", "j", "s" >>
INDEX_CSS == << "i", "n", "d", "e", "x", ".", "c", "s", "s" >>

\* The built-in template ../index.html: a page with the three placeholders and a body.
IndexHtml == << "<", "t", ">" >> \o PH_TITLE \o << "<", "l", ">" >> \o PH_STYLESHEET
             \o << "<", "s", ">" >> \o PH_SCRIPT \o BODY_END

\* The snippet ../live_reload.html, opaque here.
LiveReload == << "<", "r", "e", "l", "o", "a", "d", ">" >>

RECURSIVE Replace(_, _, _)
\* str::replace: every non-overlapping match of pat in s, left to right, becomes rep;
\* the inserted text is not scanned again.
Replace(s, pat, rep) ==
    IF Len(s) < Len(pat) THEN s
    ELSE IF SubSeq(s, 1, Len(pat)) = pat
         THEN rep \o Replace(SubSeq(s, Len(pat) + 1, Len(s)), pat, rep)
         ELSE << Head(s) >> \o Replace(Tail(s), pat, rep)

RECURSIVE Contains(_, _)
Contains(s, pat) ==
    IF Len(s) < Len(pat) THEN FALSE
    ELSE SubSeq(s, 1, Len(pat)) = pat \/ Contains(Tail(s), pat)

RECURSIVE Concat(_)
Concat(ss) == IF ss = << >> THEN << >> ELSE Head(ss) \o Concat(Tail(ss))

----------------------------------------------------------------------------
\* Inputs of the Spaxum instance

MaxPieces == 2

MaxSpawns == 1

Pieces == { PH_TITLE, PH_SCRIPT, PH_STYLESHEET, BODY_END, << "x" >>,
            << "T", "I", "T", "L", "E", "%" >> }

SeqsUpTo(S, n) == UNION { [1..k -> S] : k \in 0..n }

Templates == { Concat(ps) : ps \in SeqsUpTo(Pieces, MaxPieces) }

Titles == { << "E", "x" >>, << >>, PH_SCRIPT }

JsNames == { << "a", ".", "j", "s" >>, PH_STYLESHEET }

CssNames == { << "a", ".", "c", "s", "s" >> }

EntryPaths == { << "/", "s", "/", "i", ".", "t", "s" >> }

ArgLists == { << >>, << "--sourcemap" >> }

\* Hooks given to set_process_html: the example's (replace the title text by another
\* text) and one that rewrites the end of the body.
Hooks == { "retitle", "rebody" }

ApplyHook(h, html) ==
    CASE h = "retitle" -> Replace(html, << "E", "x" >>, << "P", "g" >>)
      [] h = "rebody"  -> Replace(html, BODY_END, << "<", "/", "B", ">" >>)

----------------------------------------------------------------------------
\* impl Spaxum

notRouterVars == << relayVars, manifestVars, bundleVars, proxyVars >>

\* Spaxum::new
New(t, ef) ==
    /\ title' = t
    /\ esbuild_args' = << >>
    /\ engine' = "MemoryServe"
    /\ entry_files' = ef
    /\ process_index' = None
    /\ html_template' = None
    /\ UNCHANGED distDir

\* Spaxum::new_proxy
NewProxy(t) ==
    /\ distDir' = "removed"
    /\ title' = t
    /\ esbuild_args' = << >>
    /\ engine' = "Proxy"
    /\ entry_files' = [js |-> << >>, css |-> << >>]
    /\ process_index' = None
    /\ html_template' = None

UnwrapOrDefault(o) == IF o = None THEN << >> ELSE Unwrap(o)

\* load!($title)
Load ==
    /\ stage = "unloaded"
    /\ \E t \in Titles :
          IF envEntrypoint # None
          THEN NewProxy(t)
          ELSE New(t, [js |-> UnwrapOrDefault(envEntry.js),
                       css |-> UnwrapOrDefault(envEntry.css)])
    /\ stage' = "live"
    /\ UNCHANGED << envEntrypoint, envEntry, spawnCalls, children, relayTask, htmlPre,
                    hookInputs, htmlServed, staticRoute, lastMemoryServe >>
    /\ UNCHANGED notRouterVars

\* Spaxum::start_proxy, as a relation on the process state: ok is whether
\* Command::spawn succeeded. It panics when the engine is not Proxy or the spawn fails.
StartProxyPanics(ok) == engine # "Proxy" \/ ~ok

StartProxy(ok) ==
    IF engine # "Proxy"
    THEN UNCHANGED << spawnCalls, children, relayTask >>
    ELSE /\ spawnCalls' = spawnCalls + 1
         /\ IF ok
            THEN children' = children + 1 /\ relayTask' = "spawned"
            ELSE UNCHANGED << children, relayTask >>

\* a direct call of the public start_proxy(&self)
StartProxyCall ==
    /\ stage = "live"
    /\ spawnCalls < MaxSpawns
    /\ \E ok \in BOOLEAN :
          /\ StartProxy(ok)
          /\ stage' = IF StartProxyPanics(ok) THEN "panicked" ELSE stage
    /\ UNCHANGED << envEntrypoint, envEntry, title, engine, entry_files, esbuild_args,
                    html_template, process_index, distDir, htmlPre, hookInputs,
                    htmlServed, staticRoute, lastMemoryServe >>
    /\ UNCHANGED notRouterVars

set_title ==
    /\ stage = "live"
    /\ \E t \in Titles : title' = t
    /\ UNCHANGED << envEntrypoint, envEntry, stage, engine, entry_files, esbuild_args,
                    html_template, process_index, distDir, spawnCalls, children, relayTask,
                    htmlPre, hookInputs, htmlServed, staticRoute, lastMemoryServe >>
    /\ UNCHANGED notRouterVars

set_process_html ==
    /\ stage = "live"
    /\ \E h \in Hooks : process_index' = Some(h)
    /\ UNCHANGED << envEntrypoint, envEntry, stage, title, engine, entry_files,
                    esbuild_args, html_template, distDir, spawnCalls, children, relayTask,
                    htmlPre, hookInputs, htmlServed, staticRoute, lastMemoryServe >>
    /\ UNCHANGED notRouterVars

set_html_template ==
    /\ stage = "live"
    /\ \E t \in Templates : html_template' = Some(t)
    /\ UNCHANGED << envEntrypoint, envEntry, stage, title, engine, entry_files,
                    esbuild_args, process_index, distDir, spawnCalls, children, relayTask,
                    htmlPre, hookInputs, htmlServed, staticRoute, lastMemoryServe >>
    /\ UNCHANGED notRouterVars

set_esbuild_args ==
    /\ stage = "live"
    /\ \E a \in ArgLists : esbuild_args' = a
    /\ UNCHANGED << envEntrypoint, envEntry, stage, title, engine, entry_files,
                    html_template, process_index, distDir, spawnCalls, children, relayTask,
                    htmlPre, hookInputs, htmlServed, staticRoute, lastMemoryServe >>
    /\ UNCHANGED notRouterVars

\* memory_serve() that forgets to look at the engine
memory_serve_always == "Some"

\* Spaxum::memory_serve
memory_serve == IF engine = "MemoryServe" THEN "Some" ELSE "None"

MemoryServeCall ==
    /\ stage = "live"
    /\ lastMemoryServe' = memory_serve
    /\ UNCHANGED << envEntrypoint, envEntry, stage, title, engine, entry_files,
                    esbuild_args, html_template, process_index, distDir, spawnCalls,
                    children, relayTask, htmlPre, hookInputs, htmlServed, staticRoute >>
    /\ UNCHANGED notRouterVars

\* router(): the template and the %TITLE% substitution (lines 246-251)
TitledHtml ==
    Replace(IF html_template # None THEN Unwrap(html_template) ELSE IndexHtml, PH_TITLE, title)

\* router(): if let Some(process_index) = self.process_index { html = process_index(html) }
Processed(html) == IF process_index # None THEN ApplyHook(Unwrap(process_index), html) ELSE html

\* router(), MemoryServe arm: the html before the hook (lines 255-257)
MemoryHtml(html) ==
    Replace(Replace(html, PH_SCRIPT, entry_files.js), PH_STYLESHEET, entry_files.css)

\* router(), MemoryServe arm: the html given to fallback (lines 255-265)
MemoryServed(html) == Processed(MemoryHtml(html))

\* router(), proxy arm: the html before the hook (lines 270-275)
ProxyHtml(html) ==
    Replace(Replace(Replace(html, PH_SCRIPT, INDEX_JS), PH_STYLESHEET, INDEX_CSS),
            BODY_END, LiveReload \o BODY_END)

\* the proxy arm with the hook run before the live-reload snippet is inserted
ProxyServedHookEarly(html) ==
    Replace(Processed(Replace(Replace(html, PH_SCRIPT, INDEX_JS), PH_STYLESHEET, INDEX_CSS)),
            BODY_END, LiveReload \o BODY_END)

\* router(), proxy arm: the html given to fallback (lines 270-291)
ProxyServed(html) == Processed(ProxyHtml(html))

\* the calls of the hook router() makes on html
HookCalls(html) == IF process_index # None THEN << html >> ELSE << >>

\* Spaxum::router(self)
RouterCall ==
    /\ stage = "live"
    /\ IF engine = "MemoryServe"
       THEN /\ htmlPre' = MemoryHtml(TitledHtml)
            /\ hookInputs' = HookCalls(htmlPre')
            /\ htmlServed' = MemoryServed(TitledHtml)
            /\ staticRoute' = "memory_serve"
            /\ stage' = "routed"
            /\ UNCHANGED << spawnCalls, children, relayTask >>
       ELSE \E ok \in BOOLEAN :
            /\ StartProxy(ok)
            /\ IF StartProxyPanics(ok)
               THEN /\ stage' = "panicked"
                    /\ UNCHANGED << htmlPre, hookInputs, htmlServed, staticRoute >>
               ELSE /\ htmlPre' = ProxyHtml(TitledHtml)
                    /\ hookInputs' = HookCalls(htmlPre')
                    /\ htmlServed' = ProxyServed(TitledHtml)
                    /\ staticRoute' = "proxy_handler"
                    /\ stage' = "routed"
    /\ UNCHANGED << envEntrypoint, envEntry, title, engine, entry_files, esbuild_args,
                    html_template, process_index, distDir, lastMemoryServe >>
    /\ UNCHANGED notRouterVars

RouterInputs ==
    /\ envEntrypoint \in { Some(p) : p \in EntryPaths } \cup { None }
    /\ envEntry \in [js : { Some(n) : n \in JsNames } \cup { None },
                   css : { Some(n) : n \in CssNames } \cup { None }]
    /\ envEntrypoint # None => envEntry = [js |-> None, css |-> None]

RouterStart ==
    /\ stage = "unloaded"
    /\ title = << >>
    /\ engine = "None"
    /\ entry_files = [js |-> << >>, css |-> << >>]
    /\ esbuild_args = << >>
    /\ html_template = None
    /\ process_index = None
    /\ distDir = "present"
    /\ spawnCalls = 0
    /\ children = 0
    /\ relayTask = "none"
    /\ htmlPre = << >>
    /\ hookInputs = << >>
    /\ htmlServed = << >>
    /\ staticRoute = "none"
    /\ lastMemoryServe = "unasked"

RouterIdle ==
    /\ envEntrypoint = None
    /\ envEntry = [js |-> None, css |-> None]
    /\ RouterStart

NextRouter ==
    \/ Load
    \/ set_title
    \/ set_process_html
    \/ set_html_template
    \/ set_esbuild_args
    \/ MemoryServeCall
    \/ StartProxyCall
    \/ RouterCall


----------------------------------------------------------------------------
\* start_proxy: the dev-server process and the task relaying its output

MaxLines == 2

MaxExitMsgs == 1

\* a line is its number in its stream and whether it is valid UTF-8
Line(n, utf8) == [n |-> n, utf8 |-> utf8]

Relayed(l) == [text |-> "esbuild: ", line |-> l.n]

Msg(t) == [text |-> t, line |-> 0]

notRelayVars == << routerVars, manifestVars, bundleVars, proxyVars >>

\* the child writes a line to its stdout
BundlerWriteOut ==
    /\ bundler = "running" /\ outOpen
    /\ Len(outWritten) < MaxLines
    /\ \E utf8 \in BOOLEAN :
          LET l == Line(Len(outWritten) + 1, utf8) IN
          /\ outWritten' = Append(outWritten, l)
          /\ outPipe' = Append(outPipe, l)
    /\ UNCHANGED << bundler, errPipe, outOpen, errOpen, errWritten, hostStdout,
                    hostStderr, task >>
    /\ UNCHANGED notRelayVars

\* the child writes a line to its stderr
BundlerWriteErr ==
    /\ bundler = "running" /\ errOpen
    /\ Len(errWritten) < MaxLines
    /\ \E utf8 \in BOOLEAN :
          LET l == Line(Len(errWritten) + 1, utf8) IN
          /\ errWritten' = Append(errWritten, l)
          /\ errPipe' = Append(errPipe, l)
    /\ UNCHANGED << bundler, outPipe, outOpen, errOpen, outWritten, hostStdout,
                    hostStderr, task >>
    /\ UNCHANGED notRelayVars

\* the child closes its stdout
BundlerCloseOut ==
    /\ bundler = "running" /\ outOpen
    /\ outOpen' = FALSE
    /\ UNCHANGED << bundler, outPipe, errPipe, errOpen, outWritten, errWritten,
                    hostStdout, hostStderr, task >>
    /\ UNCHANGED notRelayVars

\* the child closes its stderr
BundlerCloseErr ==
    /\ bundler = "running" /\ errOpen
    /\ errOpen' = FALSE
    /\ UNCHANGED << bundler, outPipe, errPipe, outOpen, outWritten, errWritten,
                    hostStdout, hostStderr, task >>
    /\ UNCHANGED notRelayVars

\* the child exits; its ends of both pipes close
BundlerExit ==
    /\ bundler = "running"
    /\ \E st \in { "exited_ok", "exited_err" } : bundler' = st
    /\ outOpen' = FALSE
    /\ errOpen' = FALSE
    /\ UNCHANGED << outPipe, errPipe, outWritten, errWritten, hostStdout, hostStderr,
                    task >>
    /\ UNCHANGED notRelayVars

\* break: the task ends and drops child, which was built with kill_on_drop(true)
Break ==
    /\ task' = "done"
    /\ bundler' = IF bundler = "running" THEN "killed" ELSE bundler
    /\ outOpen' = FALSE
    /\ errOpen' = FALSE

\* select! completes the branch stdout_reader.next_line() (lines 167-174)
RelayStdout ==
    /\ task = "running"
    /\ outPipe # << >> \/ ~outOpen
    /\ IF outPipe # << >> /\ Head(outPipe).utf8
       THEN /\ hostStdout' = Append(hostStdout, Relayed(Head(outPipe)))
            /\ outPipe' = Tail(outPipe)
            /\ UNCHANGED << hostStderr, bundler, outOpen, errOpen, task >>
       ELSE /\ hostStderr' = Append(hostStderr, Msg("esbuild: stdout closed"))
            /\ outPipe' = IF outPipe # << >> THEN Tail(outPipe) ELSE outPipe
            /\ Break
            /\ UNCHANGED hostStdout
    /\ UNCHANGED << errPipe, outWritten, errWritten >>
    /\ UNCHANGED notRelayVars

\* select! completes the branch stderr_reader.next_line() (lines 175-182)
RelayStderr ==
    /\ task = "running"
    /\ errPipe # << >> \/ ~errOpen
    /\ IF errPipe # << >> /\ Head(errPipe).utf8
       THEN /\ hostStderr' = Append(hostStderr, Relayed(Head(errPipe)))
            /\ errPipe' = Tail(errPipe)
            /\ UNCHANGED << bundler, outOpen, errOpen, task >>
       ELSE /\ hostStderr' = Append(hostStderr, Msg("esbuild: stderr closed"))
            /\ errPipe' = IF errPipe # << >> THEN Tail(errPipe) ELSE errPipe
            /\ Break
    /\ UNCHANGED << hostStdout, outPipe, outWritten, errWritten >>
    /\ UNCHANGED notRelayVars

ExitMsgs == Len(SelectSeq(hostStdout, LAMBDA e : e = Msg("esbuild process exited successfully")))

\* select! completes the branch child.wait() (lines 183-198); waitOk is whether the
\* wait itself succeeded
RelayWait ==
    /\ task = "running"
    /\ bundler \in { "exited_ok", "exited_err" }
    /\ \E waitOk \in BOOLEAN :
          IF waitOk /\ bundler = "exited_ok"
          THEN /\ ExitMsgs < MaxExitMsgs
               /\ hostStdout' = Append(hostStdout, Msg("esbuild process exited successfully"))
               /\ UNCHANGED << hostStderr, bundler, outOpen, errOpen, task >>
          ELSE /\ hostStderr' = Append(hostStderr,
                     Msg(IF waitOk THEN "esbuild process exited with error"
                                   ELSE "esbuild process failed to exit"))
               /\ Break
               /\ UNCHANGED hostStdout
    /\ UNCHANGED << outPipe, errPipe, outWritten, errWritten >>
    /\ UNCHANGED notRelayVars

\* the state right after start_proxy spawned the child and the task
RelayStart ==
    /\ bundler = "running"
    /\ outPipe = << >>
    /\ errPipe = << >>
    /\ outOpen = TRUE
    /\ errOpen = TRUE
    /\ outWritten = << >>
    /\ errWritten = << >>
    /\ hostStdout = << >>
    /\ hostStderr = << >>
    /\ task = "running"

NextRelay ==
    \/ BundlerWriteOut
    \/ BundlerWriteErr
    \/ BundlerCloseOut
    \/ BundlerCloseErr
    \/ BundlerExit
    \/ RelayStdout
    \/ RelayStderr
    \/ RelayWait

----------------------------------------------------------------------------
\* EntryFiles::from_manifest

MaxOutputs == 3

notManifestVars == << routerVars, relayVars, bundleVars, proxyVars >>

\* str::ends_with
EndsWith(s, suffix) ==
    Len(s) >= Len(suffix) /\ SubSeq(s, Len(s) - Len(suffix) + 1, Len(s)) = suffix

RECURSIVE Split(_, _)
\* the "/"-separated pieces of path, cur being the piece under construction
Split(path, cur) ==
    IF path = << >> THEN << cur >>
    ELSE IF Head(path) = "/" THEN << cur >> \o Split(Tail(path), << >>)
    ELSE Split(Tail(path), Append(cur, Head(path)))

\* Path::file_name: the last component when it is a normal one. Empty pieces and "."
\* are no components (a leading "." is CurDir); a path ending in ".." has no file name.
FileName(path) ==
    LET comps == SelectSeq(Split(path, << >>), LAMBDA c : c # << >> /\ c # << "." >>)
    IN IF comps = << >> \/ comps[Len(comps)] = << ".", "." >>
       THEN None
       ELSE Some(comps[Len(comps)])

\* the suffix test with its operands swapped
EntryMatchesSwapped(output, ep) ==
    output.entry_point # None /\ EndsWith(Unwrap(output.entry_point), ep)

\* if let Some(js) = output.entry_point.as_ref() { if entrypoint.ends_with(js) (lines 351-352)
EntryMatches(output, ep) ==
    output.entry_point # None /\ EndsWith(ep, Unwrap(output.entry_point))

\* the EntryFiles built for a matching output (lines 353-366)
EntryFilesOf(name, output) ==
    [js |-> UnwrapOrDefault(FileName(name)),
     css |-> IF output.css_bundle = None THEN << >>
             ELSE UnwrapOrDefault(FileName(Unwrap(output.css_bundle)))]

RECURSIVE Scan(_, _, _)
\* the loop over manifest.outputs.iter(), order being the HashMap's iteration order
Scan(m, ep, order) ==
    IF order = << >> THEN None
    ELSE IF EntryMatches(m[Head(order)], ep)
         THEN Some(EntryFilesOf(Head(order), m[Head(order)]))
         ELSE Scan(m, ep, Tail(order))

\* the orders in which a HashMap with these keys may be iterated
Orders(keys) ==
    { o \in [1..Cardinality(keys) -> keys] : \A i, j \in DOMAIN o : o[i] = o[j] => i = j }

EntryPointPaths == { << "/", "s", "/", "i", ".", "t", "s" >>, << "/", "s", "/", "m", ".", "t", "s" >> }

OutputNames == { << "d", "/", "i", ".", "j", "s" >>, << "d", "/", "m", ".", "j", "s" >>,
                 << "i", ".", "c", "s", "s" >>, << "d", "/", "x", ".", "j", "s" >> }

ManifestEntryPoints == { << "s", "/", "i", ".", "t", "s" >>, << "m", ".", "t", "s" >>,
                         << "x", ".", "t", "s" >> }

CssBundles == { << "d", "/", "i", ".", "c", "s", "s" >>, << "d", "/", ".", "." >> }

Options(S) == { Some(x) : x \in S } \cup { None }

Outputs == [css_bundle : Options(CssBundles), entry_point : Options(ManifestEntryPoints)]

Manifests ==
    UNION { [keys -> Outputs] : keys \in { k \in SUBSET OutputNames : Cardinality(k) <= MaxOutputs } }

\* EntryFiles::from_manifest(manifest_file, entrypoint)
FromManifestCall ==
    /\ fmState = "pending"
    /\ IF manifestFile # "ok"
       THEN fmState' = "panicked" /\ UNCHANGED fmResult
       ELSE /\ fmState' = "returned"
            /\ \E order \in Orders(DOMAIN manifest) : fmResult' = Scan(manifest, entrypoint, order)
    /\ UNCHANGED << manifestFile, manifest, entrypoint >>
    /\ UNCHANGED notManifestVars

ManifestInputs ==
    /\ manifestFile \in { "ok", "unreadable", "unparsable" }
    /\ manifest \in Manifests
    /\ entrypoint \in EntryPointPaths
    /\ fmState = "pending"
    /\ fmResult = None

ManifestIdle ==
    /\ manifestFile = "ok"
    /\ manifest = << >>
    /\ entrypoint = << >>
    /\ fmState = "pending"
    /\ fmResult = None

NextManifest == FromManifestCall

----------------------------------------------------------------------------
\* bundle_with_args (the build script) and the bundler process it spawns

MaxBundlerLines == 2

PipeCap == 1

notBundleVars == << routerVars, relayVars, manifestVars, proxyVars >>

CanonPaths == { << "/", "s", "/", "i", ".", "t", "s" >>, << "/" >> }

BundleManifests ==
    { [k \in { << "d", "/", "i", ".", "j", "s" >> } |->
          [css_bundle |-> c, entry_point |-> e]] :
        c \in Options({ << "d", "/", "i", ".", "c", "s", "s" >> }),
        e \in Options({ << "s", "/", "i", ".", "t", "s" >>, << "x", ".", "t", "s" >> }) }

RECURSIVE JoinAbs(_)
JoinAbs(comps) == IF comps = << >> THEN << >> ELSE << "/" >> \o Head(comps) \o JoinAbs(Tail(comps))

\* Path::parent of an absolute path: None when the path is the root
Parent(path) ==
    LET comps == SelectSeq(Split(path, << >>), LAMBDA c : c # << >>)
    IN IF comps = << >> THEN None
       ELSE IF Len(comps) = 1 THEN Some(<< "/" >>)
       ELSE Some(JoinAbs(SubSeq(comps, 1, Len(comps) - 1)))

Directive(kind, key, val) == [kind |-> kind, key |-> key, val |-> val]

\* fn log(msg): println!("cargo::warning={}", msg) unless SPAXUM_QUIET is 1
Log(out, msg, val) == IF quiet THEN out ELSE Append(out, Directive("warning", msg, val))

\* error!: println!("cargo::error=..."); exit(1)
Error(out, msg, why) ==
    /\ cargo' = Append(out, Directive("error", msg, << >>))
    /\ exitCode' = 1
    /\ bpc' = "exited"
    /\ failure' = why

\* a panic: the process ends with status 101 and prints no directive
Panic(out, why) ==
    /\ cargo' = out
    /\ exitCode' = 101
    /\ bpc' = "panicked"
    /\ failure' = why

\* the build-mode test inverted
SkipBundlingInverted == ~debugBuild

\* if cfg!(debug_assertions) (line 464)
SkipBundling == debugBuild

\* the exit status left unchecked
SuccessUnchecked(status) == TRUE

\* status.success() (line 526)
Success(status) == status = "ok"

\* bundle_with_args up to the exit of a debug build or the spawn of the bundler
\* (lines 446-505)
BundleStart ==
    /\ bpc = "start"
    /\ \E exists \in BOOLEAN, path \in CanonPaths, outDirSet \in BOOLEAN,
          writeOk \in BOOLEAN, spawnOk \in BOOLEAN :
          IF ~exists
          THEN /\ Error(cargo, "not found!", "entrypoint_not_found")
               /\ UNCHANGED << canon, assetFile, outDist, spawns, esb, pipesOpen >>
          ELSE /\ canon' = Some(path)
               /\ IF ~outDirSet
                  THEN /\ Error(cargo, "OUT_DIR not set!", "out_dir_not_set")
                       /\ UNCHANGED << assetFile, outDist, spawns, esb, pipesOpen >>
                  ELSE IF SkipBundling
                  THEN LET out == Append(cargo, Directive("rustc-env", "SPAXUM_ENTRYPOINT", path)) IN
                       /\ IF writeOk
                          THEN /\ assetFile' = Some("&[]")
                               /\ cargo' = Log(out, "Skipping bundling in debug mode", << >>)
                               /\ exitCode' = 0
                               /\ bpc' = "exited"
                               /\ UNCHANGED failure
                          ELSE /\ Error(out, "Unable to write asset file", "write_failed")
                               /\ UNCHANGED assetFile
                       /\ UNCHANGED << outDist, spawns, esb, pipesOpen >>
                  ELSE /\ outDist' = "removed"
                       /\ IF Parent(path) = None
                          THEN /\ Error(cargo, "Unable to get parent directory of entrypoint", "no_parent")
                               /\ UNCHANGED << assetFile, spawns, esb, pipesOpen >>
                          ELSE LET out == Log(Append(cargo, Directive("rerun-if-changed", "", Unwrap(Parent(path)))),
                                              "Bundling using esbuild...", path) IN
                               /\ spawns' = spawns + 1
                               /\ IF spawnOk
                                  THEN /\ esb' = "running"
                                       /\ pipesOpen' = TRUE
                                       /\ bpc' = "read_stdout"
                                       /\ cargo' = out
                                       /\ UNCHANGED << exitCode, failure >>
                                  ELSE /\ Error(out, "esbuild failed to start", "spawn_failed")
                                       /\ UNCHANGED << esb, pipesOpen >>
                               /\ UNCHANGED assetFile
    /\ UNCHANGED << debugBuild, quiet, manifestReads, found, esbStatus, esbOp, esbLine,
                    bOut, bErr, bOutN, bErrN >>
    /\ UNCHANGED notBundleVars

\* one step of: for line in BufReader::new(stdout).lines() (lines 507-512)
ReadStdout ==
    /\ bpc = "read_stdout"
    /\ bOut # << >> \/ ~pipesOpen
    /\ IF bOut = << >>
       THEN /\ bpc' = "read_stderr"
            /\ UNCHANGED << bOut, cargo, exitCode, failure >>
       ELSE /\ bOut' = Tail(bOut)
            /\ IF Head(bOut) = "bad"
               THEN Panic(cargo, "bad_line")
               ELSE /\ cargo' = Log(cargo, "esbuild: ", << Head(bOut) >>)
                    /\ UNCHANGED << bpc, exitCode, failure >>
    /\ UNCHANGED << debugBuild, quiet, canon, assetFile, outDist, spawns, manifestReads,
                    found, esb, esbStatus, esbOp, esbLine, bErr, bOutN, bErrN, pipesOpen >>
    /\ UNCHANGED notBundleVars

\* one step of: for line in BufReader::new(stderr).lines() (lines 514-519)
ReadStderr ==
    /\ bpc = "read_stderr"
    /\ bErr # << >> \/ ~pipesOpen
    /\ IF bErr = << >>
       THEN /\ bpc' = "wait"
            /\ UNCHANGED << bErr, cargo, exitCode, failure >>
       ELSE /\ bErr' = Tail(bErr)
            /\ IF Head(bErr) = "bad"
               THEN Panic(cargo, "bad_line")
               ELSE /\ cargo' = Log(cargo, "esbuild error: ", << Head(bErr) >>)
                    /\ UNCHANGED << bpc, exitCode, failure >>
    /\ UNCHANGED << debugBuild, quiet, canon, assetFile, outDist, spawns, manifestReads,
                    found, esb, esbStatus, esbOp, esbLine, bOut, bOutN, bErrN, pipesOpen >>
    /\ UNCHANGED notBundleVars

\* child.wait() and the rest of bundle_with_args (lines 521-549)
WaitAndFinish ==
    /\ bpc = "wait"
    /\ esb = "exited"
    /\ \E waitOk \in BOOLEAN, file \in { "ok", "unreadable", "unparsable" },
          m \in BundleManifests, writeOk \in BOOLEAN :
       \E order \in Orders(DOMAIN m) :
          IF ~waitOk
          THEN /\ Error(cargo, "esbuild failed to bundle", "wait_failed")
               /\ UNCHANGED << manifestReads, found, assetFile >>
          ELSE IF ~Success(esbStatus)
          THEN /\ Error(cargo, "esbuild failed to bundle", "bad_status")
               /\ UNCHANGED << manifestReads, found, assetFile >>
          ELSE LET out == Log(cargo, "esbuild completed successfully", << >>) IN
               /\ manifestReads' = manifestReads + 1
               /\ IF file # "ok"
                  THEN /\ Panic(out, "manifest_" \o file)
                       /\ UNCHANGED << found, assetFile >>
                  ELSE /\ found' = Scan(m, Unwrap(canon), order)
                       /\ IF found' = None
                          THEN /\ Error(out, "Unable to find entrypoint in manifest file", "not_in_manifest")
                               /\ UNCHANGED assetFile
                          ELSE LET env == out \o << Directive("rustc-env", "SPAXUM_JS_ENTRY", Unwrap(found').js),
                                                    Directive("rustc-env", "SPAXUM_CSS_ENTRY", Unwrap(found').css) >> IN
                               IF writeOk
                               THEN /\ assetFile' = Some("assets_to_code")
                                    /\ cargo' = env
                                    /\ bpc' = "returned"
                                    /\ UNCHANGED << exitCode, failure >>
                               ELSE /\ Error(env, "Unable to write asset file", "write_failed")
                                    /\ UNCHANGED assetFile
    /\ UNCHANGED << debugBuild, quiet, canon, outDist, spawns, esb, esbStatus, esbOp,
                    esbLine, bOut, bErr, bOutN, bErrN, pipesOpen >>
    /\ UNCHANGED notBundleVars

ScriptAlive == bpc \in { "read_stdout", "read_stderr", "wait" }

\* the bundler starts writing a line to its stdout or stderr
EsbBeginWrite ==
    /\ ScriptAlive /\ esb = "running" /\ esbOp = "idle"
    /\ \E op \in { "write_out", "write_err" }, l \in { "line", "bad" } :
          /\ op = "write_out" => bOutN < MaxBundlerLines
          /\ op = "write_err" => bErrN < MaxBundlerLines
          /\ esbOp' = op
          /\ esbLine' = l
    /\ UNCHANGED << debugBuild, quiet, bpc, exitCode, failure, cargo, canon, assetFile,
                    outDist, spawns, manifestReads, found, esb, esbStatus, bOut, bErr,
                    bOutN, bErrN, pipesOpen >>
    /\ UNCHANGED notBundleVars

\* the write completes once the pipe has room for it
EsbCompleteWrite ==
    /\ ScriptAlive /\ esb = "running" /\ esbOp # "idle"
    /\ IF esbOp = "write_out"
       THEN /\ Len(bOut) < PipeCap
            /\ bOut' = Append(bOut, esbLine)
            /\ bOutN' = bOutN + 1
            /\ UNCHANGED << bErr, bErrN >>
       ELSE /\ Len(bErr) < PipeCap
            /\ bErr' = Append(bErr, esbLine)
            /\ bErrN' = bErrN + 1
            /\ UNCHANGED << bOut, bOutN >>
    /\ esbOp' = "idle"
    /\ esbLine' = "none"
    /\ UNCHANGED << debugBuild, quiet, bpc, exitCode, failure, cargo, canon, assetFile,
                    outDist, spawns, manifestReads, found, esb, esbStatus, pipesOpen >>
    /\ UNCHANGED notBundleVars

\* the bundler exits; its ends of both pipes close
EsbExit ==
    /\ ScriptAlive /\ esb = "running" /\ esbOp = "idle"
    /\ esb' = "exited"
    /\ \E st \in { "ok", "err" } : esbStatus' = st
    /\ pipesOpen' = FALSE
    /\ UNCHANGED << debugBuild, quiet, bpc, exitCode, failure, cargo, canon, assetFile,
                    outDist, spawns, manifestReads, found, esbOp, esbLine, bOut, bErr,
                    bOutN, bErrN >>
    /\ UNCHANGED notBundleVars

BundleInputs ==
    /\ debugBuild \in BOOLEAN
    /\ quiet \in BOOLEAN

BundleStartState ==
    /\ bpc = "start"
    /\ exitCode = -1
    /\ failure = "none"
    /\ cargo = << >>
    /\ canon = None
    /\ assetFile = None
    /\ outDist = "present"
    /\ spawns = 0
    /\ manifestReads = 0
    /\ found = None
    /\ esb = "none"
    /\ esbStatus = "none"
    /\ esbOp = "idle"
    /\ esbLine = "none"
    /\ bOut = << >>
    /\ bErr = << >>
    /\ bOutN = 0
    /\ bErrN = 0
    /\ pipesOpen = FALSE

BundleIdle ==
    /\ debugBuild = FALSE
    /\ quiet = FALSE
    /\ BundleStartState

NextBundle ==
    \/ BundleStart
    \/ ReadStdout
    \/ ReadStderr
    \/ WaitAndFinish
    \/ EsbBeginWrite
    \/ EsbCompleteWrite
    \/ EsbExit

----------------------------------------------------------------------------
\* The proxy router and proxy_handler. A path is its sequence of segments; the
\* segment "long" stands for one that makes the URI longer than a Uri may be.

MaxSegments == 2

notProxyVars == << routerVars, relayVars, manifestVars, bundleVars >>

Segments == { "static", "index.js", "long" }

Paths == SeqsUpTo(Segments, MaxSegments)

Queries == Options({ "v=1" })

Methods == { "GET", "HEAD", "POST" }

HeaderSets == { "none", "accept" }

Bodies == { "", "data" }

Requests == [method : Methods, path : Paths, query : Queries, headers : HeaderSets,
             body : Bodies]

UpstreamResponses == [status : { 200, 404, 400 }, body : { "asset", "" }, origin : { "upstream" }]

Local(status, body) == [status |-> status, body |-> body, origin |-> "local"]

\* Err(_) of client.request(req).await: no response
Failed == [status |-> 0, body |-> "", origin |-> "error"]

\* Router::nest("/static", ..): the nested router sees the URI without the prefix
StripPrefix(req) == [req EXCEPT !.path = Tail(req.path)]

Nested(req) == req.path # << >> /\ Head(req.path) = "static"

\* the path alone, the query string lost
PathOnly(req) == [path |-> req.path, query |-> None]

\* req.uri().path_and_query() (lines 304-309)
PathQuery(req) == [path |-> req.path, query |-> req.query]

\* Uri::try_from(format!("http://127.0.0.1:8888{}", path_query)) (lines 311-315)
TargetUri(pq) ==
    IF \E i \in DOMAIN pq.path : pq.path[i] = "long"
    THEN None
    ELSE Some([scheme |-> "http", authority |-> "127.0.0.1:8888",
               path |-> pq.path, query |-> pq.query])

\* *req.uri_mut() = uri (line 317): the request sent on
Forwarded(req, uri) ==
    [uri |-> uri, method |-> req.method, headers |-> req.headers, body |-> req.body]

\* the router receives a request
Receive ==
    /\ pstate \in { "idle", "done" }
    /\ \E req \in Requests : clientReq' = Some(req)
    /\ pstate' = "received"
    /\ route' = "none"
    /\ handlerReq' = None
    /\ forwarded' = << >>
    /\ upstreamResult' = None
    /\ response' = None
    /\ UNCHANGED notProxyVars

\* proxy_handler(State(client), req) called with req, the dev server answering result
ProxyHandler(req, result) ==
    /\ handlerReq' = Some(req)
    /\ IF TargetUri(PathQuery(req)) = None
       THEN /\ response' = Some(Local(400, ""))
            /\ UNCHANGED << forwarded, upstreamResult >>
       ELSE /\ forwarded' = Append(forwarded, Forwarded(req, Unwrap(TargetUri(PathQuery(req)))))
            /\ upstreamResult' = Some(result)
            /\ response' = IF result = Failed THEN Some(Local(400, "")) ELSE Some(result)

\* the router of the proxy arm answers the request (lines 285-291)
Respond ==
    /\ pstate = "received"
    /\ pstate' = "done"
    /\ LET req == Unwrap(clientReq) IN
       IF ~Nested(req)
       THEN /\ route' = "fallback_html"
            /\ response' = Some(Local(200, "html"))
            /\ UNCHANGED << handlerReq, forwarded, upstreamResult >>
       ELSE IF req.method \notin { "GET", "HEAD" }
       THEN /\ route' = "method_not_allowed"
            /\ response' = Some(Local(405, ""))
            /\ UNCHANGED << handlerReq, forwarded, upstreamResult >>
       ELSE /\ route' = "proxy_handler"
            /\ \E result \in UpstreamResponses \cup { Failed } :
                  ProxyHandler(StripPrefix(req), result)
    /\ UNCHANGED clientReq
    /\ UNCHANGED notProxyVars

ProxyIdle ==
    /\ pstate = "idle"
    /\ clientReq = None
    /\ route = "none"
    /\ handlerReq = None
    /\ forwarded = << >>
    /\ upstreamResult = None
    /\ response = None

NextProxy ==
    \/ Receive
    \/ Respond

----------------------------------------------------------------------------
\* Specifications

InitRouter == RouterInputs /\ RouterStart /\ RelayStart /\ ManifestIdle /\ BundleIdle /\ ProxyIdle

SpecRouter == InitRouter /\ [][NextRouter]_vars

InitRelay == RouterIdle /\ RelayStart /\ ManifestIdle /\ BundleIdle /\ ProxyIdle

SpecRelay == InitRelay /\ [][NextRelay]_vars

InitManifest == RouterIdle /\ RelayStart /\ ManifestInputs /\ BundleIdle /\ ProxyIdle

SpecManifest == InitManifest /\ [][NextManifest]_vars

InitBundle == RouterIdle /\ RelayStart /\ ManifestIdle /\ BundleInputs /\ BundleStartState /\ ProxyIdle

SpecBundle == InitBundle /\ [][NextBundle]_vars

InitProxy == RouterIdle /\ RelayStart /\ ManifestIdle /\ BundleIdle /\ ProxyIdle

SpecProxy == InitProxy /\ [][NextProxy]_vars

----------------------------------------------------------------------------
\* Properties of the Spaxum instance and its router

StartsWith(s, p) == Len(s) >= Len(p) /\ SubSeq(s, 1, Len(p)) = p

RECURSIVE Substitute(_, _, _, _)
\* s with each placeholder occurrence, found left to right in s itself, replaced by
\* its value
Substitute(s, t, js, css) ==
    IF s = << >> THEN << >>
    ELSE IF StartsWith(s, PH_TITLE)
         THEN t \o Substitute(SubSeq(s, Len(PH_TITLE) + 1, Len(s)), t, js, css)
    ELSE IF StartsWith(s, PH_SCRIPT)
         THEN js \o Substitute(SubSeq(s, Len(PH_SCRIPT) + 1, Len(s)), t, js, css)
    ELSE IF StartsWith(s, PH_STYLESHEET)
         THEN css \o Substitute(SubSeq(s, Len(PH_STYLESHEET) + 1, Len(s)), t, js, css)
    ELSE << Head(s) >> \o Substitute(Tail(s), t, js, css)

TemplateInUse == IF html_template # None THEN Unwrap(html_template) ELSE IndexHtml

\* C1, state part: the mode is the one load! chose from SPAXUM_ENTRYPOINT; a
\* memory-serve instance never spawns a bundler or a relay task; memory_serve() is Some
\* exactly in memory-serve mode; a returned router nests /static to the mode's handler.
ModeState ==
    /\ stage # "unloaded" => engine \in { "Proxy", "MemoryServe" }
    /\ stage # "unloaded" => (engine = "Proxy" <=> envEntrypoint # None)
    /\ engine # "Proxy" => spawnCalls = 0 /\ children = 0 /\ relayTask = "none"
    /\ lastMemoryServe # "unasked" => (lastMemoryServe = "Some" <=> engine = "MemoryServe")
    /\ stage = "routed" => (staticRoute = "proxy_handler" <=> engine = "Proxy")
    /\ stage = "routed" => (staticRoute = "memory_serve" <=> engine = "MemoryServe")

\* C1, step part: once constructed the mode never changes, and the step in which
\* router() returns starts one bundler process exactly when the mode is proxy.
ModeStep ==
    /\ stage # "unloaded" => engine' = engine
    /\ (stage = "live" /\ stage' = "routed") =>
          /\ engine = "Proxy" => children' = children + 1 /\ spawnCalls' = spawnCalls + 1
          /\ engine # "Proxy" => children' = children /\ spawnCalls' = spawnCalls

\* C1: a Spaxum instance is in exactly one of two modes, fixed at construction and
\* changed by no setter; router() starts the bundler dev server if and only if the mode
\* is proxy, no bundler is ever spawned in memory-serve mode, and memory_serve() is Some
\* if and only if the mode is memory-serve.
C1_ModeFixed == [](ModeState) /\ [][ModeStep]_vars

\* a proxy instance whose router was returned after setters and memory_serve() were used
C1_Witness ==
    /\ stage = "routed" /\ engine = "Proxy" /\ children = 1
    /\ lastMemoryServe = "None" /\ process_index # None /\ html_template # None

\* C2: the html router() builds before the hook is the template with each occurrence
\* of %TITLE%, %SCRIPT% and %STYLESHEET% replaced by the title and the entry file
\* names (index.js and index.css in proxy mode, where the live-reload snippet is then
\* put before </body>).
C2_Substituted ==
    stage = "routed" =>
        htmlPre = IF engine = "MemoryServe"
                  THEN Substitute(TemplateInUse, title, entry_files.js, entry_files.css)
                  ELSE Replace(Substitute(TemplateInUse, title, INDEX_JS, INDEX_CSS),
                               BODY_END, LiveReload \o BODY_END)

\* The html of router() by its steps, in the order the code runs them
Step1 == Replace(TemplateInUse, PH_TITLE, title)

Step2 == Replace(Step1, PH_SCRIPT, IF engine = "MemoryServe" THEN entry_files.js ELSE INDEX_JS)

Step3 == Replace(Step2, PH_STYLESHEET, IF engine = "MemoryServe" THEN entry_files.css ELSE INDEX_CSS)

Step4 == IF engine = "MemoryServe" THEN Step3 ELSE Replace(Step3, BODY_END, LiveReload \o BODY_END)

\* C5: a hook set with set_process_html is applied exactly once, in both modes, to the
\* html after the three substitutions and (proxy mode) the live-reload insertion, and
\* the fallback serves exactly its return value; with no hook the html is served as built.
C5_HookLast ==
    stage = "routed" =>
        IF process_index # None
        THEN /\ hookInputs = << Step4 >>
             /\ htmlServed = ApplyHook(Unwrap(process_index), Step4)
        ELSE /\ hookInputs = << >>
             /\ htmlServed = Step4

\* the example's case in proxy mode: the hook rewrote the substituted title, and the
\* live-reload snippet was already in the html it received
C5_Witness ==
    /\ stage = "routed" /\ engine = "Proxy"
    /\ process_index = Some("retitle") /\ title = << "E", "x" >>
    /\ Contains(TemplateInUse, PH_TITLE) /\ Contains(TemplateInUse, BODY_END)
    /\ Len(hookInputs) = 1 /\ Contains(hookInputs[1], LiveReload)
    /\ htmlServed # hookInputs[1]

----------------------------------------------------------------------------
\* Properties of the relay task

RelayedLines(log) == SelectSeq(log, LAMBDA e : e.text = "esbuild: ")

AllUtf8(w) == \A j \in 1..Len(w) : w[j].utf8

\* C3: every line the bundler wrote to stdout (stderr) is relayed to the host's stdout
\* (stderr) with the prefix "esbuild: ", in order, none dropped or duplicated: once the
\* relay task has ended, nothing more is relayed, so all of them must have been
\* (stated for runs in which every line is valid UTF-8).
C3_AllRelayed ==
    (task = "done" /\ AllUtf8(outWritten) /\ AllUtf8(errWritten)) =>
        /\ RelayedLines(hostStdout) = [i \in 1..Len(outWritten) |-> Relayed(outWritten[i])]
        /\ RelayedLines(hostStderr) = [i \in 1..Len(errWritten) |-> Relayed(errWritten[i])]

----------------------------------------------------------------------------
\* Properties of from_manifest

RECURSIVE LastPiece(_, _)
\* the text after the last "/" of s that is followed by a component, read from the end
LastPiece(s, acc) ==
    IF s = << >> THEN acc
    ELSE IF s[Len(s)] = "/"
         THEN IF acc = << >> \/ acc = << "." >>
              THEN LastPiece(SubSeq(s, 1, Len(s) - 1), << >>)
              ELSE acc
         ELSE LastPiece(SubSeq(s, 1, Len(s) - 1), << s[Len(s)] >> \o acc)

\* the final path component, empty when the path has none or ends in ".."
FinalComponent(s) ==
    LET c == LastPiece(s, << >>) IN IF c = << ".", "." >> \/ c = << "." >> THEN << >> ELSE c

IsSuffix(suffix, s) ==
    \E k \in 0..Len(s) : suffix = [i \in 1..(Len(s) - k) |-> s[k + i]]

MatchingOutputs ==
    { k \in DOMAIN manifest :
        /\ manifest[k].entry_point # None
        /\ IsSuffix(Unwrap(manifest[k].entry_point), entrypoint) }

\* C4: from_manifest returns Some exactly when some output's entryPoint is a suffix of
\* the canonical entrypoint path (outputs without entryPoint never match); then js is
\* the final path component of such an output's key and css the final path component
\* of its cssBundle, or empty when it has none.
C4_FromManifest ==
    fmState = "returned" =>
        /\ fmResult # None <=> MatchingOutputs # { }
        /\ fmResult # None =>
              \E k \in MatchingOutputs :
                 /\ Unwrap(fmResult).js = FinalComponent(k)
                 /\ Unwrap(fmResult).css =
                       IF manifest[k].css_bundle = None THEN << >>
                       ELSE FinalComponent(Unwrap(manifest[k].css_bundle))

\* a manifest with an output that has no entryPoint, one whose entryPoint is no suffix
\* and one that matches, which was returned with its css bundle's file name
C4_Witness ==
    /\ fmState = "returned" /\ fmResult # None
    /\ Unwrap(fmResult).css = << "i", ".", "c", "s", "s" >>
    /\ Cardinality(DOMAIN manifest) >= 2
    /\ \E k \in DOMAIN manifest : manifest[k].entry_point = None
    /\ \E k \in DOMAIN manifest : manifest[k].entry_point # None /\ k \notin MatchingOutputs

----------------------------------------------------------------------------
\* Properties of bundle_with_args

Emitted(key) == \E i \in DOMAIN cargo : cargo[i].kind = "rustc-env" /\ cargo[i].key = key

EntryEnvEmitted == Emitted("SPAXUM_JS_ENTRY") \/ Emitted("SPAXUM_CSS_ENTRY")

ErrorPrinted == cargo # << >> /\ cargo[Len(cargo)].kind = "error"

Ended == bpc \in { "returned", "exited", "panicked" }

ListedFailures == { "entrypoint_not_found", "out_dir_not_set", "spawn_failed", "bad_status",
                    "wait_failed", "not_in_manifest" }

\* the asset file and the entry variables come only after a successful bundler run
\* whose manifest held the entrypoint
OnlyAfterSuccess ==
    (~debugBuild /\ (assetFile # None \/ EntryEnvEmitted)) =>
        /\ esb = "exited" /\ esbStatus = "ok" /\ bpc \in { "returned", "exited" }
        /\ found # None
        /\ Emitted("SPAXUM_JS_ENTRY") /\ Emitted("SPAXUM_CSS_ENTRY")

CleanFailure ==
    /\ bpc = "exited" /\ exitCode = 1 /\ ErrorPrinted
    /\ assetFile = None /\ ~EntryEnvEmitted

\* C6 as stated: in a release build the asset file and the entry variables come only
\* after the bundler succeeded and the manifest held the entrypoint, and every failure
\* prints cargo::error and exits with status 1 having written no asset file and emitted
\* no entry variable.
C6_EveryFailureClean ==
    /\ OnlyAfterSuccess
    /\ (~debugBuild /\ failure # "none") => CleanFailure

\* C6 amended: the same for the failures the claim lists (and a missing parent
\* directory); a failed write of spaxum.rs also prints cargo::error and exits with
\* status 1, but after both entry variables were emitted; an unreadable or unparsable
\* manifest and a bundler line that is not UTF-8 panic: no cargo::error line, and
\* nothing written or emitted.
C6_ReleaseOutcome ==
    /\ OnlyAfterSuccess
    /\ (~debugBuild /\ failure \in ListedFailures \cup { "no_parent" }) => CleanFailure
    /\ (~debugBuild /\ failure = "write_failed") =>
          /\ bpc = "exited" /\ exitCode = 1 /\ ErrorPrinted /\ assetFile = None
          /\ Emitted("SPAXUM_JS_ENTRY") /\ Emitted("SPAXUM_CSS_ENTRY")
    /\ (~debugBuild /\ failure \in { "manifest_unreadable", "manifest_unparsable", "bad_line" }) =>
          /\ bpc = "panicked" /\ exitCode = 101 /\ ~ErrorPrinted
          /\ assetFile = None /\ ~EntryEnvEmitted
    /\ (~debugBuild /\ bpc = "returned") =>
          /\ failure = "none" /\ assetFile = Some("assets_to_code")

\* a release build that failed because the manifest lacked the entrypoint, after the
\* bundler had written output and exited with success
C6_Witness ==
    /\ ~debugBuild /\ failure = "not_in_manifest" /\ esbStatus = "ok"
    /\ bOutN > 0 /\ bErrN > 0 /\ manifestReads = 1 /\ bpc = "exited"

DebugSkipped ==
    /\ spawns = 0 /\ esb = "none" /\ outDist = "present" /\ manifestReads = 0
    /\ cargo # << >> /\ cargo[1] = Directive("rustc-env", "SPAXUM_ENTRYPOINT", Unwrap(canon))

EnvSeparation ==
    /\ ~debugBuild => ~Emitted("SPAXUM_ENTRYPOINT")
    /\ debugBuild => ~EntryEnvEmitted

DebugPastChecks ==
    debugBuild /\ Ended /\ failure \notin { "entrypoint_not_found", "out_dir_not_set" }

\* C7 as stated: a debug build, once the entrypoint is found and OUT_DIR is set, never
\* spawns the bundler, removes dist or reads a manifest; it emits SPAXUM_ENTRYPOINT with
\* the canonical path, writes "&[]" to spaxum.rs and exits with status 0;
\* SPAXUM_ENTRYPOINT is emitted in no release path and the entry variables in no debug
\* path.
C7_DebugExitsZero ==
    /\ EnvSeparation
    /\ DebugPastChecks =>
          /\ DebugSkipped
          /\ assetFile = Some("&[]") /\ exitCode = 0 /\ bpc = "exited"

\* C7 amended: the same, except that when writing spaxum.rs fails the script prints
\* cargo::error and exits with status 1, SPAXUM_ENTRYPOINT already emitted.
C7_DebugSkips ==
    /\ EnvSeparation
    /\ DebugPastChecks =>
          /\ DebugSkipped
          /\ bpc = "exited"
          /\ \/ failure = "none" /\ assetFile = Some("&[]") /\ exitCode = 0 /\ ~ErrorPrinted
             \/ failure = "write_failed" /\ assetFile = None /\ exitCode = 1 /\ ErrorPrinted
    /\ debugBuild => bpc \in { "start", "exited" }

\* a debug build that wrote the empty asset list and exited with status 0
C7_Witness ==
    /\ debugBuild /\ bpc = "exited" /\ exitCode = 0
    /\ assetFile = Some("&[]") /\ Emitted("SPAXUM_ENTRYPOINT")

\* C9: there is no state in which the bundler is blocked writing to a full pipe while
\* the build script is blocked reading the other, empty one.
C9_NoDeadlock ==
    ~ ( /\ bpc = "read_stdout" /\ bOut = << >> /\ pipesOpen
        /\ esbOp = "write_err" /\ Len(bErr) >= PipeCap )

----------------------------------------------------------------------------
\* Properties of proxy_handler

\* C8: proxy_handler forwards the request it received to http://127.0.0.1:8888 with the
\* same path and query, method, headers and body, and returns the upstream response as
\* is; when the URI cannot be built or the upstream request fails it answers 400 and
\* no other status of its own; it forwards at most once.
C8_Forwarding ==
    (pstate = "done" /\ route = "proxy_handler") =>
        LET req == Unwrap(handlerReq) IN
        /\ Len(forwarded) <= 1
        /\ \A i \in DOMAIN forwarded :
              /\ forwarded[i].uri.scheme = "http"
              /\ forwarded[i].uri.authority = "127.0.0.1:8888"
              /\ forwarded[i].uri.path = req.path
              /\ forwarded[i].uri.query = req.query
              /\ forwarded[i].method = req.method
              /\ forwarded[i].headers = req.headers
              /\ forwarded[i].body = req.body
        /\ IF forwarded # << >> /\ upstreamResult # Some(Failed)
           THEN response = upstreamResult /\ Unwrap(response).origin = "upstream"
           ELSE response = Some(Local(400, ""))
        /\ forwarded = << >> <=> (\E i \in DOMAIN req.path : req.path[i] = "long")

\* a GET with a query string was forwarded once and the dev server's 404 came back
C8_Witness ==
    /\ pstate = "done" /\ route = "proxy_handler"
    /\ Len(forwarded) = 1 /\ forwarded[1].uri.query = Some("v=1")
    /\ forwarded[1].uri.path = << "index.js" >>
    /\ Unwrap(response).status = 404 /\ Unwrap(response).origin = "upstream"

====
